---- MODULE Spec2Model ----
(***************************************************************************)
(* The fluent workflow builder of langgraph/graph/fluent.py: FluentNode    *)
(* and FluentWorkflow, a facade over the StateGraph engine.  Every public  *)
(* method is one action.  The engine (StateGraph) is a recorder of the     *)
(* calls the facade forwards to it.                                        *)
(***************************************************************************)
EXTENDS Naturals, Sequences, FiniteSets, TLC

(* ---------------------------------------------------------------------- *)
(* Universe and bounds                                                     *)
(* ---------------------------------------------------------------------- *)

\* Number of facade calls one behaviour of Spec makes.
MaxCalls == 5

\* FluentNode objects (identities) a client program may construct, those the
\* free-running client of Spec constructs, and the FluentWorkflow objects.
AllNodes == {"n1", "n2", "n3"}
FreeNodes == {"n1", "n2"}
Workflows == {"w1", "w2"}


\* Node names handed to FluentNode(name); the empty string is a legal name.
Names == {"A", "B", ""}

\* Callables handed to with_function.
Funcs == {"f1", "f2"}

\* Keyword arguments handed to compile(**kwargs).
Kwargs == {{}, {"debug"}}

(* ---------------------------------------------------------------------- *)
(* Python values: every value carries its type                             *)
(* ---------------------------------------------------------------------- *)

None == [kind |-> "none", val |-> ""]
Str(s) == [kind |-> "str", val |-> s]
NodeRef(n) == [kind |-> "node", val |-> n]
WorkflowRef(w) == [kind |-> "workflow", val |-> w]
Func(f) == [kind |-> "callable", val |-> f]
IntVal == [kind |-> "int", val |-> "42"]

\* isinstance(x, FluentNode)
IsFluentNode(x) == x.kind = "node"

\* A faulty IsStr: every value that is no node passes for a string.
IsStrUnlessNode(x) == x.kind # "node"

\* isinstance(x, str)
IsStr(x) == x.kind = "str"

\* Python truth value of a None-or-string value: None and "" are falsy.
Truthy(x) == ~(x = None) /\ ~(IsStr(x) /\ x.val = "")

\* langgraph.constants.END, the terminal marker (a string sentinel).
END == "__end__"

(* ---------------------------------------------------------------------- *)
(* State                                                                   *)
(* ---------------------------------------------------------------------- *)

VARIABLES
    name,           \* FluentNode.name
    function,       \* FluentNode.function
    _workflow,      \* FluentNode._workflow
    _nodes,         \* FluentWorkflow._nodes: dict name -> FluentNode
    _entry_point,   \* FluentWorkflow._entry_point
    _graph,         \* FluentWorkflow._graph: the engine's recorded structure
    last,           \* the call just made: operation, operands, result, error
    calls,          \* number of calls the client program has made so far
    client,         \* the client program: the operations it uses, or a script
    script,         \* the calls of a scripted client program, in order
    held            \* the dict the client got from the nodes property, if any

vars == <<name, function, _workflow, _nodes, _entry_point, _graph, last, calls,
          client, script, held>>

facade == <<name, function, _workflow, _nodes, _entry_point, _graph>>

\* The empty dict.
EmptyDict == [k \in {} |-> None]

\* d[k] = v on a dict.
DictSet(d, k, v) == (k :> v) @@ d

\* d.get(k)
DictGet(d, k) == IF k \in DOMAIN d THEN d[k] ELSE None

\* del d[k]
DictDel(d, k) == [j \in DOMAIN d \ {k} |-> d[j]]

\* A dict object in the hands of a caller: the workflow it came from (of),
\* whether it is that workflow's own _nodes object (shared) or an object of
\* its own, and in the latter case its items.
NoDict == [of |-> None, shared |-> FALSE, items |-> EmptyDict]

\* d.copy(): a new dict object with the items of self._nodes.
DictCopy(self) == [of |-> WorkflowRef(self), shared |-> FALSE, items |-> _nodes[self]]

\* The dict object self._nodes itself.
DictItself(self) == [of |-> WorkflowRef(self), shared |-> TRUE, items |-> EmptyDict]

\* The items of the dict object the client holds.
HeldItems == IF held.shared THEN _nodes[held.of.val] ELSE held.items

(* ---------------------------------------------------------------------- *)
(* The engine: StateGraph as the facade uses it                            *)
(* ---------------------------------------------------------------------- *)

\* StateGraph(state_schema): nothing recorded yet.
StateGraph == [nodes |-> EmptyDict, edges |-> {}, entry |-> None,
               branches |-> {}, compiled |-> FALSE]

EngineAddNode(g, n, f) == [g EXCEPT !.nodes = DictSet(g.nodes, n, f)]

EngineAddEdge(g, a, b) == [g EXCEPT !.edges = g.edges \cup {<<a, b>>}]

EngineSetEntryPoint(g, n) == [g EXCEPT !.entry = n]

EngineAddConditionalEdges(g, src, cond, mapping) ==
    [g EXCEPT !.branches = g.branches \cup
        {[source |-> src, path |-> cond, ends |-> mapping]}]

EngineCompile(g, kwargs) == [g EXCEPT !.compiled = TRUE]

\* A strict engine refuses add_node for a name it already holds and for a
\* reserved name; the terminal marker is reserved.
Reserved == {END}
EngineRejectsNode(g, n) == n \in DOMAIN g.nodes \/ n \in Reserved

\* What the engine's compile returns: the executable artifact.
EngineCompiled(w, g, kwargs) ==
    [kind |-> "app", val |-> w, entry |-> g.entry, kwargs |-> kwargs]

(* ---------------------------------------------------------------------- *)
(* Call records                                                            *)
(* ---------------------------------------------------------------------- *)

NoCall == [op |-> "init", self |-> None, arg |-> None, ret |-> None,
           err |-> "none", fwd |-> <<>>]

Returned(op, self, arg, ret, fwd) ==
    [op |-> op, self |-> self, arg |-> arg, ret |-> ret, err |-> "none", fwd |-> fwd]

Raised(op, self, arg, err) ==
    [op |-> op, self |-> self, arg |-> arg, ret |-> None, err |-> err, fwd |-> <<>>]

(* ---------------------------------------------------------------------- *)
(* Construction                                                            *)
(* ---------------------------------------------------------------------- *)

\* The nodes constructed: name is a field of every constructed node.
Nodes == DOMAIN name

\* FluentNode.__init__ for every node of objs but for its name,
\* FluentWorkflow.__init__ for every workflow.
Fresh(objs) ==
    /\ DOMAIN name = objs
    /\ function = [n \in objs |-> None]
    /\ _workflow = [n \in objs |-> None]
    /\ _nodes = [w \in Workflows |-> EmptyDict]
    /\ _entry_point = [w \in Workflows |-> None]
    /\ _graph = [w \in Workflows |-> StateGraph]
    /\ last = NoCall
    /\ calls = 0
    /\ held = NoDict

\* The same, with a name of Names for every node.
Constructed(objs) == name \in [objs -> Names] /\ Fresh(objs)

(* ---------------------------------------------------------------------- *)
(* FluentNode                                                              *)
(* ---------------------------------------------------------------------- *)

\* FluentNode.with_function(func)
with_function(self, func) ==
    /\ function' = [function EXCEPT ![self] = Func(func)]
    /\ last' = Returned("with_function", NodeRef(self), Func(func), NodeRef(self), <<>>)
    /\ UNCHANGED <<name, _workflow, _nodes, _entry_point, _graph>>

\* The engine of the workflow a registered node belongs to gets an edge.
AddEdgeTo(w, a, b) ==
    _graph' = [_graph EXCEPT ![w] = EngineAddEdge(_graph[w], a, b)]

AddEdgeCall(w, a, b) == <<[call |-> "add_edge", graph |-> w, args |-> <<a, b>>]>>

\* The edge target a string operand stands for (lines 116-119): "END" and END
\* both mean the terminal marker, any other string is taken as a node name.
EdgeTargetOfStr(s) == IF s = "END" \/ s = END THEN END ELSE s

\* A faulty DifferentWorkflow: only an unregistered target is refused.
DifferentWorkflowOnlyNone(self, other) == _workflow[other] = None

\* other._workflow != self._workflow (line 110): identity of the workflow objects.
DifferentWorkflow(self, other) == _workflow[other] # _workflow[self]

\* The value node >> node returns (line 113) and node >> string returns (line 120).
ReturnOfNodeTarget(self, other) == NodeRef(other)
ReturnOfStrTarget(self, other) == NodeRef(self)

\* A faulty NotAdded: the type of the target is tested first.
NotAddedAfterTypeCheck(self, other) ==
    (IsFluentNode(other) \/ IsStr(other)) /\ _workflow[self] = None

\* self._workflow is None (line 106), tested before the target is looked at.
NotAdded(self, other) == _workflow[self] = None

\* FluentNode.__rshift__(other): self >> other, the connect_to of the builder.
FluentNode__rshift__(self, other) ==
    LET me == NodeRef(self) IN
    /\ UNCHANGED <<name, function, _workflow, _nodes, _entry_point>>
    /\ IF NotAdded(self, other)
       THEN /\ last' = Raised("connect_to", me, other, "PreconditionError")
            /\ UNCHANGED _graph
       ELSE LET w == _workflow[self].val IN
            IF IsFluentNode(other)
            THEN IF DifferentWorkflow(self, other.val)
                 THEN /\ last' = Raised("connect_to", me, other, "CrossWorkflowError")
                      /\ UNCHANGED _graph
                 ELSE /\ AddEdgeTo(w, name[self], name[other.val])
                      /\ last' = Returned("connect_to", me, other,
                                          ReturnOfNodeTarget(self, other.val),
                                          AddEdgeCall(w, name[self], name[other.val]))
            ELSE IF IsStr(other)
            THEN /\ AddEdgeTo(w, name[self], EdgeTargetOfStr(other.val))
                 /\ last' = Returned("connect_to", me, other,
                                     ReturnOfStrTarget(self, other.val),
                                     AddEdgeCall(w, name[self], EdgeTargetOfStr(other.val)))
            ELSE /\ last' = Raised("connect_to", me, other, "InvalidTargetError")
                 /\ UNCHANGED _graph

(* ---------------------------------------------------------------------- *)
(* FluentWorkflow                                                          *)
(* ---------------------------------------------------------------------- *)

AddNodeCall(w, n, f) == <<[call |-> "add_node", graph |-> w, args |-> <<n, f>>]>>

\* The registration proper (lines 204-209): mapping entry, back-reference,
\* then the engine's add_node.
Register(self, node) ==
    /\ _nodes' = [_nodes EXCEPT ![self] = DictSet(_nodes[self], name[node], NodeRef(node))]
    /\ _workflow' = [_workflow EXCEPT ![node] = WorkflowRef(self)]
    /\ _graph' = [_graph EXCEPT ![self] =
                     EngineAddNode(_graph[self], name[node], function[node])]

\* A faulty RegisterRefusal: the callable is not asked for.
RegisterRefusalTypeOnly(node) == IF ~IsFluentNode(node) THEN "NotANodeError" ELSE "none"

\* The guards of FluentWorkflow.__rshift__ (lines 198-202): the error the
\* operand is refused with, or "none".
RegisterRefusal(node) ==
    IF ~IsFluentNode(node) THEN "NotANodeError"
    ELSE IF function[node.val] = None THEN "MissingCallableError"
    ELSE "none"

\* A faulty FluentWorkflow.__rshift__: the node is tracked before its callable
\* is asked for.
FluentWorkflow__rshift__tracking_first(self, node) ==
    /\ UNCHANGED <<name, function, _entry_point>>
    /\ IF ~IsFluentNode(node)
       THEN /\ last' = Raised("register", WorkflowRef(self), node, "NotANodeError")
            /\ UNCHANGED <<_workflow, _nodes, _graph>>
       ELSE IF function[node.val] = None
       THEN /\ _nodes' = [_nodes EXCEPT
                             ![self] = DictSet(_nodes[self], name[node.val], node)]
            /\ _workflow' = [_workflow EXCEPT ![node.val] = WorkflowRef(self)]
            /\ UNCHANGED _graph
            /\ last' = Raised("register", WorkflowRef(self), node, "MissingCallableError")
       ELSE /\ Register(self, node.val)
            /\ last' = Returned("register", WorkflowRef(self), node, node,
                                AddNodeCall(self, name[node.val], function[node.val]))

\* FluentWorkflow.__rshift__(node): workflow >> node, the operator form of register.
FluentWorkflow__rshift__(self, node) ==
    /\ UNCHANGED <<name, function, _entry_point>>
    /\ IF RegisterRefusal(node) # "none"
       THEN /\ last' = Raised("register", WorkflowRef(self), node, RegisterRefusal(node))
            /\ UNCHANGED <<_workflow, _nodes, _graph>>
       ELSE /\ Register(self, node.val)
            /\ last' = Returned("register", WorkflowRef(self), node, node,
                                AddNodeCall(self, name[node.val], function[node.val]))

\* FluentWorkflow.__rshift__(node) when the engine's add_node raises: the
\* mapping entry and the back-reference are written (lines 205-206), the
\* engine call of line 209 raises, and the exception leaves the method.
FluentWorkflow__rshift__engine_raises(self, node) ==
    /\ UNCHANGED <<name, function, _entry_point, _graph>>
    /\ _nodes' = [_nodes EXCEPT ![self] = DictSet(_nodes[self], name[node.val], node)]
    /\ _workflow' = [_workflow EXCEPT ![node.val] = WorkflowRef(self)]
    /\ last' = Raised("register", WorkflowRef(self), node, "EngineError")

\* A faulty add_node: the result of self >> node is returned.
add_node_returning_node(self, node) ==
    /\ UNCHANGED <<name, function, _entry_point>>
    /\ IF RegisterRefusal(node) # "none"
       THEN /\ last' = Raised("add_node", WorkflowRef(self), node, RegisterRefusal(node))
            /\ UNCHANGED <<_workflow, _nodes, _graph>>
       ELSE /\ Register(self, node.val)
            /\ last' = Returned("add_node", WorkflowRef(self), node, node,
                                AddNodeCall(self, name[node.val], function[node.val]))

\* FluentWorkflow.add_node(node): self >> node, then return self.
add_node(self, node) ==
    /\ UNCHANGED <<name, function, _entry_point>>
    /\ IF RegisterRefusal(node) # "none"
       THEN /\ last' = Raised("add_node", WorkflowRef(self), node, RegisterRefusal(node))
            /\ UNCHANGED <<_workflow, _nodes, _graph>>
       ELSE /\ Register(self, node.val)
            /\ last' = Returned("add_node", WorkflowRef(self), node, WorkflowRef(self),
                                AddNodeCall(self, name[node.val], function[node.val]))

\* The name set_entry_point and add_conditional_edges resolve an operand to
\* (lines 239-242, 268-271, 276-279): a node gives its name, anything else is kept.
ResolveName(x) == IF IsFluentNode(x) THEN Str(name[x.val]) ELSE x

\* A faulty InNodes: any string passes.
InNodesAnyString(self, x) == IsStr(x)

\* entry_name in self._nodes (line 244)
InNodes(self, x) == IsStr(x) /\ x.val \in DOMAIN _nodes[self]

SetEntryPointCall(w, n) == <<[call |-> "set_entry_point", graph |-> w, args |-> <<n>>]>>

\* A faulty set_entry_point: the name is recorded before it is looked up.
set_entry_point_recording_first(self, node_name_or_node) ==
    LET entry_name == ResolveName(node_name_or_node) IN
    /\ UNCHANGED <<name, function, _workflow, _nodes>>
    /\ _entry_point' = [_entry_point EXCEPT ![self] = entry_name]
    /\ IF ~InNodes(self, entry_name)
       THEN /\ last' = Raised("set_entry_point", WorkflowRef(self), node_name_or_node,
                              "UnknownNodeError")
            /\ UNCHANGED _graph
       ELSE /\ _graph' = [_graph EXCEPT ![self] =
                             EngineSetEntryPoint(_graph[self], entry_name)]
            /\ last' = Returned("set_entry_point", WorkflowRef(self), node_name_or_node,
                                WorkflowRef(self), SetEntryPointCall(self, entry_name))

\* FluentWorkflow.set_entry_point(node_name_or_node)
set_entry_point(self, node_name_or_node) ==
    LET entry_name == ResolveName(node_name_or_node) IN
    /\ UNCHANGED <<name, function, _workflow, _nodes>>
    /\ IF ~InNodes(self, entry_name)
       THEN /\ last' = Raised("set_entry_point", WorkflowRef(self), node_name_or_node,
                              "UnknownNodeError")
            /\ UNCHANGED <<_entry_point, _graph>>
       ELSE /\ _entry_point' = [_entry_point EXCEPT ![self] = entry_name]
            /\ _graph' = [_graph EXCEPT ![self] =
                             EngineSetEntryPoint(_graph[self], entry_name)]
            /\ last' = Returned("set_entry_point", WorkflowRef(self), node_name_or_node,
                                WorkflowRef(self), SetEntryPointCall(self, entry_name))

\* The mapping add_conditional_edges forwards (lines 274-279): every value that
\* is a FluentNode becomes its name, every other value is kept as it is.
ConvertMapping(mapping) == [k \in DOMAIN mapping |-> ResolveName(mapping[k])]

AddConditionalEdgesCall(w, src, cond, m) ==
    <<[call |-> "add_conditional_edges", graph |-> w, args |-> <<src, cond, m>>]>>

\* FluentWorkflow.add_conditional_edges(source, condition_func, mapping)
add_conditional_edges(self, source, condition_func, mapping) ==
    LET source_name == ResolveName(source)
        converted_mapping == ConvertMapping(mapping)
    IN
    /\ UNCHANGED <<name, function, _workflow, _nodes, _entry_point>>
    /\ _graph' = [_graph EXCEPT ![self] =
                     EngineAddConditionalEdges(_graph[self], source_name,
                                               condition_func, converted_mapping)]
    /\ last' = Returned("add_conditional_edges", WorkflowRef(self),
                        [source |-> source, mapping |-> mapping], WorkflowRef(self),
                        AddConditionalEdgesCall(self, source_name, condition_func,
                                                converted_mapping))

\* What get_node(name) returns: self._nodes.get(name)
GetNodeResult(self, key) == DictGet(_nodes[self], key)

\* FluentWorkflow.get_node(name)
get_node(self, key) ==
    /\ UNCHANGED facade
    /\ last' = Returned("get_node", WorkflowRef(self), Str(key),
                        GetNodeResult(self, key), <<>>)

\* A faulty nodes property: the mapping itself is handed out.
nodes_without_copy(self) ==
    /\ UNCHANGED facade
    /\ held' = DictItself(self)
    /\ last' = Returned("nodes", WorkflowRef(self), None, [kind |-> "dict", val |-> self], <<>>)

\* FluentWorkflow.nodes (property): return self._nodes.copy()
nodes(self) ==
    /\ UNCHANGED facade
    /\ held' = DictCopy(self)
    /\ last' = Returned("nodes", WorkflowRef(self), None, [kind |-> "dict", val |-> self], <<>>)

\* The client writes to the dict object it holds: the items of that object
\* become items, and they are the workflow's mapping when the object is shared.
WriteHeld(items) ==
    /\ UNCHANGED <<name, function, _workflow, _entry_point, _graph>>
    /\ IF held.shared
       THEN /\ _nodes' = [_nodes EXCEPT ![held.of.val] = items]
            /\ UNCHANGED held
       ELSE /\ held' = [held EXCEPT !.items = items]
            /\ UNCHANGED _nodes

\* A faulty NoEntryPoint: compile asks for nothing.
NoEntryPointNever(self) == FALSE

\* not self._entry_point (line 309)
NoEntryPoint(self) == ~Truthy(_entry_point[self])

CompileCall(w, kwargs) == <<[call |-> "compile", graph |-> w, args |-> <<kwargs>>]>>

\* FluentWorkflow.compile(**kwargs)
compile(self, kwargs) ==
    /\ UNCHANGED <<name, function, _workflow, _nodes, _entry_point>>
    /\ IF NoEntryPoint(self)
       THEN /\ last' = Raised("compile", WorkflowRef(self), kwargs, "NoEntryPointError")
            /\ UNCHANGED _graph
       ELSE /\ _graph' = [_graph EXCEPT ![self] = EngineCompile(_graph[self], kwargs)]
            /\ last' = Returned("compile", WorkflowRef(self), kwargs,
                                EngineCompiled(self, _graph[self], kwargs),
                                CompileCall(self, kwargs))

(* ---------------------------------------------------------------------- *)
(* Client programs                                                         *)
(* ---------------------------------------------------------------------- *)

AllOps == {"with_function", "connect_to", "register", "add_node", "set_entry_point",
           "add_conditional_edges", "get_node", "compile"}

\* A free-running client makes any calls of the operations it uses (ops), on
\* the workflows it built (workflows), with callables from funcs, up to
\* MaxCalls - less calls.  Its first node is named "A", its second node has a
\* name of names.
RegistrationClient ==
    [ops |-> {"with_function", "register", "add_node", "get_node"},
     workflows |-> Workflows, funcs |-> Funcs, names |-> {"A", "B"}, less |-> 0]

WiringClient ==
    [ops |-> {"with_function", "register", "connect_to"},
     workflows |-> Workflows, funcs |-> {"f1"}, names |-> {"A", "B"}, less |-> 0]

EntryClient ==
    [ops |-> {"with_function", "register", "set_entry_point", "compile"},
     workflows |-> {"w1"}, funcs |-> {"f1"}, names |-> Names, less |-> 0]

BranchingClient ==
    [ops |-> {"with_function", "register", "add_conditional_edges"},
     workflows |-> {"w1"}, funcs |-> {"f1"}, names |-> {"B"}, less |-> 0]

AnyClient ==
    [ops |-> AllOps, workflows |-> Workflows, funcs |-> {"f1"}, names |-> {"B"}, less |-> 2]

\* A client that reads the nodes property and writes to the dict it got.
AccessorClient ==
    [ops |-> {"with_function", "register", "nodes", "dict_write", "get_node"},
     workflows |-> {"w1"}, funcs |-> {"f1"}, names |-> {"B"}, less |-> 0]

\* A client of a workflow whose engine is strict: its second node has the name
\* of its first node or a reserved name.
StrictEngineClient ==
    [ops |-> {"with_function", "register", "get_node"},
     workflows |-> Workflows, funcs |-> Funcs, names |-> {"A", END}, less |-> 0]

Clients == {RegistrationClient, WiringClient, EntryClient, BranchingClient, AnyClient,
            AccessorClient}

Naming(c) == {[n \in FreeNodes |-> IF n = "n1" THEN "A" ELSE x] : x \in c.names}

\* A scripted client makes the calls of its script in order and stops at the
\* first call that raises.  In a script, Chained as the receiver of a call
\* stands for the value the call before it returned: a >> b >> c.
Scripted == [ops |-> {}, workflows |-> {}, funcs |-> {}, names |-> {}, less |-> 0]

Chained == [kind |-> "chained", val |-> ""]

Call(op, self, arg) == [op |-> op, self |-> self, arg |-> arg]

\* Three nodes are bound and registered, wired in one chain to the terminal
\* target t, the first is made the entry point and the workflow is compiled
\* (the shape of main(), examples/fluent-api-example.py lines 130-157).
ChainProgram(w, t) ==
    << Call("with_function", NodeRef("n1"), Func("f1")),
       Call("with_function", NodeRef("n2"), Func("f1")),
       Call("with_function", NodeRef("n3"), Func("f2")),
       Call(">>", WorkflowRef(w), NodeRef("n1")),
       Call(">>", WorkflowRef(w), NodeRef("n2")),
       Call(">>", WorkflowRef(w), NodeRef("n3")),
       Call(">>", NodeRef("n1"), NodeRef("n2")),
       Call(">>", Chained, NodeRef("n3")),
       Call(">>", Chained, t),
       Call("set_entry_point", WorkflowRef(w), NodeRef("n1")),
       Call("compile", WorkflowRef(w), {}) >>

\* The example of the module docstring and of FluentWorkflow's docstring
\* (lines 11-21, 157-165): workflow >> start >> process >> "END".
DocstringProgram(w) ==
    << Call("with_function", NodeRef("n1"), Func("f1")),
       Call("with_function", NodeRef("n2"), Func("f2")),
       Call(">>", WorkflowRef(w), NodeRef("n1")),
       Call(">>", Chained, NodeRef("n2")),
       Call(">>", Chained, Str("END")),
       Call("set_entry_point", WorkflowRef(w), NodeRef("n1")),
       Call("compile", WorkflowRef(w), {}) >>

\* Two nodes are bound and registered, then the first routes to the second
\* or to the terminal target t.
BranchProgram(w, t) ==
    << Call("with_function", NodeRef("n1"), Func("f1")),
       Call("with_function", NodeRef("n2"), Func("f2")),
       Call(">>", WorkflowRef(w), NodeRef("n1")),
       Call(">>", WorkflowRef(w), NodeRef("n2")),
       Call("add_conditional_edges", WorkflowRef(w),
            [source |-> NodeRef("n1"), mapping |-> [ok |-> NodeRef("n2"), fail |-> t]]) >>

Terminals == {Str("END"), Str(END)}

Scripts ==
    {ChainProgram(w, t) : w \in Workflows, t \in Terminals}
    \cup {DocstringProgram(w) : w \in Workflows}
    \cup {BranchProgram(w, t) : w \in Workflows, t \in Terminals}

Init ==
    \/ /\ client \in Clients
       /\ Constructed(FreeNodes)
       /\ name \in Naming(client)
       /\ script = <<>>
    \/ /\ client = Scripted
       /\ Constructed(AllNodes)
       /\ script \in Scripts

(* ---------------------------------------------------------------------- *)
(* Specification                                                           *)
(* ---------------------------------------------------------------------- *)

\* The free-running client makes one more step, of operation op.
Step(op) ==
    /\ op \in client.ops
    /\ calls + client.less < MaxCalls
    /\ calls' = calls + 1
    /\ UNCHANGED <<client, script>>

\* The free-running client makes one more call of a method, of operation op:
\* no method touches a dict the client holds.
Tick(op) == Step(op) /\ UNCHANGED held

NodeRefs == {NodeRef(n) : n \in Nodes}

\* What a caller may hand to >>.
Operands == NodeRefs \cup {Str("END"), Str(END), Str("Z"), IntVal}

WithFunction ==
    \E n \in Nodes, f \in client.funcs : Tick("with_function") /\ with_function(n, f)

Connect == \E n \in Nodes, x \in Operands : Tick("connect_to") /\ FluentNode__rshift__(n, x)

RegisterOp ==
    \E w \in client.workflows, x \in NodeRefs \cup {IntVal} :
        Tick("register") /\ FluentWorkflow__rshift__(w, x)

AddNode ==
    \E w \in client.workflows, x \in NodeRefs \cup {IntVal} : Tick("add_node") /\ add_node(w, x)

SetEntryPoint ==
    \E w \in client.workflows, x \in NodeRefs \cup {Str(s) : s \in Names \cup {"Z"}} :
        Tick("set_entry_point") /\ set_entry_point(w, x)

\* The mappings handed to add_conditional_edges: key "ok" to a node and key
\* "fail" to the alias of the terminal marker, or key "ok" to a name no node
\* has and key "fail" to the terminal marker.
Mappings ==
    {[ok |-> v, fail |-> Str("END")] : v \in NodeRefs} \cup {[ok |-> Str("Z"), fail |-> Str(END)]}

AddConditionalEdges ==
    \E w \in client.workflows, src \in NodeRefs \cup {Str("Z")}, m \in Mappings :
        Tick("add_conditional_edges") /\ add_conditional_edges(w, src, "route", m)

GetNode ==
    \E w \in client.workflows, k \in Names \cup {"Z"} : Tick("get_node") /\ get_node(w, k)

Compile == \E w \in client.workflows, kw \in Kwargs : Tick("compile") /\ compile(w, kw)

NodesProperty == \E w \in client.workflows : Step("nodes") /\ nodes(w)

\* The client adds, replaces or removes an entry of the dict it holds.
DictWrite ==
    /\ Step("dict_write")
    /\ held # NoDict
    /\ \E k \in Names \cup {"Z"} :
          \/ \E v \in NodeRefs :
                /\ WriteHeld(DictSet(HeldItems, k, v))
                /\ last' = Returned("dict_setitem", None, Str(k), None, <<>>)
          \/ /\ k \in DOMAIN HeldItems
             /\ WriteHeld(DictDel(HeldItems, k))
             /\ last' = Returned("dict_delitem", None, Str(k), None, <<>>)

\* The scripted client makes its next call.  self >> arg is dispatched on the
\* type of self: FluentWorkflow.__rshift__ or FluentNode.__rshift__.
RunScript ==
    /\ calls < Len(script)
    /\ last.err = "none"
    /\ calls' = calls + 1
    /\ UNCHANGED <<client, script, held>>
    /\ LET c == script[calls + 1]
           self == IF c.self = Chained THEN last.ret ELSE c.self
       IN  CASE c.op = "with_function" -> with_function(self.val, c.arg.val)
             [] c.op = ">>" /\ self.kind = "workflow" -> FluentWorkflow__rshift__(self.val, c.arg)
             [] c.op = ">>" /\ self.kind = "node" -> FluentNode__rshift__(self.val, c.arg)
             [] c.op = "set_entry_point" -> set_entry_point(self.val, c.arg)
             [] c.op = "add_conditional_edges" ->
                    add_conditional_edges(self.val, c.arg.source, "route", c.arg.mapping)
             [] c.op = "compile" -> compile(self.val, c.arg)
             [] OTHER -> FALSE

Next ==
    \/ RunScript
    \/ WithFunction
    \/ Connect
    \/ RegisterOp
    \/ AddNode
    \/ SetEntryPoint
    \/ AddConditionalEdges
    \/ GetNode
    \/ Compile
    \/ NodesProperty
    \/ DictWrite

Spec == Init /\ [][Next]_vars

(* ---------------------------------------------------------------------- *)
(* Specification with a strict engine                                      *)
(* ---------------------------------------------------------------------- *)

InitStrictEngine ==
    /\ client = StrictEngineClient
    /\ name \in Naming(client)
    /\ Fresh(FreeNodes)
    /\ script = <<>>

\* workflow >> node on a strict engine: the facade's own tests first, then
\* the registration, in which the engine's add_node returns or raises.
RegisterOnStrictEngine ==
    \E w \in client.workflows, x \in NodeRefs \cup {IntVal} :
        /\ Tick("register")
        /\ IF RegisterRefusal(x) = "none" /\ EngineRejectsNode(_graph[w], name[x.val])
           THEN FluentWorkflow__rshift__engine_raises(w, x)
           ELSE FluentWorkflow__rshift__(w, x)

NextStrictEngine ==
    \/ WithFunction
    \/ RegisterOnStrictEngine
    \/ GetNode

SpecStrictEngine == InitStrictEngine /\ [][NextStrictEngine]_vars

(* ---------------------------------------------------------------------- *)
(* Properties                                                              *)
(* ---------------------------------------------------------------------- *)

\* The step is a call of operation op on receiver self with operand arg.
Called(op, self, arg) == last'.op = op /\ last'.self = self /\ last'.arg = arg

\* C3: connect_to on a node that has no owning workflow fails with the
\* precondition error whatever the target is (a node, registered or not, a
\* string, a value of another type), and the engines are left as they were.
ConnectBeforeRegisterFails ==
    [][\A n \in Nodes, x \in Operands :
          (Called("connect_to", NodeRef(n), x) /\ _workflow[n] = None)
              => (last'.err = "PreconditionError" /\ _graph' = _graph)]_vars

\* C3 witness: an unregistered node was connected to a registered node.
ConnectBeforeRegisterSeen ==
    \E n, m \in Nodes :
        /\ last.op = "connect_to" /\ last.self = NodeRef(n) /\ last.arg = NodeRef(m)
        /\ _workflow[n] = None /\ _workflow[m] # None
        /\ last.err = "PreconditionError"

\* C4: a.connect_to(b) for two nodes owned by different workflow instances
\* fails with the cross-workflow error and adds no edge to any engine.
CrossWorkflowConnectFails ==
    [][\A a, b \in Nodes :
          (/\ Called("connect_to", NodeRef(a), NodeRef(b))
           /\ _workflow[a] # None /\ _workflow[b] # None
           /\ _workflow[a] # _workflow[b])
              => (last'.err = "CrossWorkflowError" /\ _graph' = _graph)]_vars

\* C4 witness: a node of w1 was connected to a node of w2.
CrossWorkflowConnectSeen ==
    \E a, b \in Nodes :
        /\ last.op = "connect_to" /\ last.self = NodeRef(a) /\ last.arg = NodeRef(b)
        /\ _workflow[a] = WorkflowRef("w1") /\ _workflow[b] = WorkflowRef("w2")
        /\ last.err = "CrossWorkflowError"

\* C5: register(node) fails with the missing-callable error when the node has
\* no bound callable; with a callable bound it succeeds, sets the node's
\* back-reference to this workflow, forwards (name, callable) to the engine,
\* and get(node.name) then returns that node.
RegisterNeedsCallable ==
    [][\A w \in Workflows, n \in Nodes :
          Called("register", WorkflowRef(w), NodeRef(n))
              => IF function[n] = None
                 THEN last'.err = "MissingCallableError"
                 ELSE /\ last'.err = "none"
                      /\ _workflow'[n] = WorkflowRef(w)
                      /\ last'.fwd = AddNodeCall(w, name[n], function[n])
                      /\ name[n] \in DOMAIN _graph'[w].nodes
                      /\ _graph'[w].nodes[name[n]] = function[n]
                      /\ GetNodeResult(w, name[n])' = NodeRef(n)]_vars

\* C5 witness: a node with a callable was registered under a name another
\* node held, and get returns the new node.
RegisterSeen ==
    \E w \in Workflows, n, m \in Nodes :
        /\ last.op = "register" /\ last.self = WorkflowRef(w) /\ last.arg = NodeRef(n)
        /\ last.err = "none"
        /\ m # n /\ name[m] = name[n] /\ _workflow[m] = WorkflowRef(w)
        /\ GetNodeResult(w, name[n]) = NodeRef(n)

\* C7: set_entry_point(nameOrNode) resolves its argument to a name (a node to
\* its name, a string to itself); it fails with the unknown-node error when
\* that name is no key of the node mapping, and otherwise records the name as
\* the entry point, forwards it to the engine and returns the workflow.
SetEntryPointChecksName ==
    [][\A w \in Workflows, x \in NodeRefs \cup {Str(s) : s \in Names \cup {"Z"}} :
          Called("set_entry_point", WorkflowRef(w), x)
              => LET nm == IF x.kind = "node" THEN name[x.val] ELSE x.val IN
                 IF nm \notin DOMAIN _nodes[w]
                 THEN /\ last'.err = "UnknownNodeError"
                      /\ _entry_point' = _entry_point /\ _graph' = _graph
                 ELSE /\ last'.err = "none"
                      /\ _entry_point'[w] = Str(nm)
                      /\ _graph'[w].entry = Str(nm)
                      /\ last'.fwd = SetEntryPointCall(w, Str(nm))
                      /\ last'.ret = WorkflowRef(w)]_vars

\* C7 witness: a registered node object was made the entry point.
SetEntryPointSeen ==
    \E w \in Workflows, n \in Nodes :
        /\ last.op = "set_entry_point" /\ last.self = WorkflowRef(w)
        /\ last.arg = NodeRef(n) /\ last.err = "none"
        /\ last.ret = WorkflowRef(w) /\ _entry_point[w] = Str(name[n])

\* C10: the operator form of register (workflow >> node) returns the node, the
\* non-operator form add_node(node) returns the workflow; both have the same
\* effect on the node mapping, the node's back-reference and the engine (and
\* both refuse the same operands with the same error, changing nothing).
RegisterFormsAgree ==
    [][\A w \in Workflows, x \in NodeRefs \cup {IntVal}, op \in {"register", "add_node"} :
          Called(op, WorkflowRef(w), x)
              => IF x.kind = "node" /\ function[x.val] # None
                 THEN LET n == x.val IN
                      /\ last'.err = "none"
                      /\ last'.ret = IF op = "register" THEN x ELSE WorkflowRef(w)
                      /\ _nodes' = [_nodes EXCEPT ![w] =
                                       [k \in DOMAIN _nodes[w] \cup {name[n]} |->
                                           IF k = name[n] THEN x ELSE _nodes[w][k]]]
                      /\ _workflow' = [_workflow EXCEPT ![n] = WorkflowRef(w)]
                      /\ _graph' = [_graph EXCEPT ![w].nodes =
                                       [k \in DOMAIN _graph[w].nodes \cup {name[n]} |->
                                           IF k = name[n] THEN function[n]
                                           ELSE _graph[w].nodes[k]]]
                      /\ UNCHANGED <<name, function, _entry_point>>
                 ELSE /\ last'.err = IF x.kind = "node" THEN "MissingCallableError"
                                     ELSE "NotANodeError"
                      /\ UNCHANGED facade]_vars

\* C10 witness: add_node registered a node and returned the workflow.
AddNodeSeen ==
    \E w \in Workflows, n \in Nodes :
        /\ last.op = "add_node" /\ last.self = WorkflowRef(w) /\ last.arg = NodeRef(n)
        /\ last.err = "none" /\ last.ret = WorkflowRef(w)
        /\ _workflow[n] = WorkflowRef(w) /\ GetNodeResult(w, name[n]) = NodeRef(n)

\* C6, as claimed: compile fails with the no-entry-point error if no entry
\* point has been set (no set_entry_point has succeeded, so _entry_point is
\* still None); after any successful set_entry_point it forwards to the
\* engine's compile with the given options and returns the engine's result.
CompileNeedsEntryPoint ==
    [][\A w \in Workflows, kw \in Kwargs :
          Called("compile", WorkflowRef(w), kw)
              => IF _entry_point[w] = None
                 THEN last'.err = "NoEntryPointError" /\ _graph' = _graph
                 ELSE /\ last'.err = "none"
                      /\ last'.fwd = CompileCall(w, kw)
                      /\ last'.ret = EngineCompiled(w, _graph[w], kw)]_vars

\* C1, as claimed: in the chain program every call succeeds; A >> B returns
\* B, B >> C returns C, C >> terminal returns C; after the chain the engine's
\* edges are exactly A->B, B->C, C->terminal; set_entry_point(A) and compile
\* succeed.
ChainScenario ==
    \A w \in Workflows, t \in Terminals :
        script = ChainProgram(w, t)
            => /\ last.err = "none"
               /\ calls = 7 => last.ret = NodeRef("n2")
               /\ calls = 8 => last.ret = NodeRef("n3")
               /\ calls = 9 => last.ret = NodeRef("n3")
               /\ calls >= 9 =>
                      _graph[w].edges = { <<name["n1"], name["n2"]>>,
                                          <<name["n2"], name["n3"]>>,
                                          <<name["n3"], END>> }
               /\ calls = 11 => last.ret.kind = "app"

\* C1, the part the code keeps: the same with compile left out.
ChainWiring ==
    \A w \in Workflows, t \in Terminals :
        script = ChainProgram(w, t)
            => /\ calls <= 10 => last.err = "none"
               /\ calls = 7 => last.ret = NodeRef("n2")
               /\ calls = 8 => last.ret = NodeRef("n3")
               /\ calls = 9 => last.ret = NodeRef("n3")
               /\ calls >= 9 =>
                      _graph[w].edges = { <<name["n1"], name["n2"]>>,
                                          <<name["n2"], name["n3"]>>,
                                          <<name["n3"], END>> }
               /\ (calls = 11 /\ name["n1"] # "") => last.ret.kind = "app"

\* C2, as claimed: the documented chain workflow >> start >> process >> "END"
\* on two bound, unregistered nodes raises nothing, and leaves both nodes
\* registered and the edges start->process and process->END in the engine.
DocstringChain ==
    \A w \in Workflows :
        script = DocstringProgram(w)
            => /\ last.err = "none"
               /\ calls >= 5 =>
                      /\ _workflow["n1"] = WorkflowRef(w)
                      /\ _workflow["n2"] = WorkflowRef(w)
                      /\ {name["n1"], name["n2"]} \subseteq DOMAIN _nodes[w]
                      /\ { <<name["n1"], name["n2"]>>, <<name["n2"], END>> }
                             \subseteq _graph[w].edges

\* The terminal marker for its alias, any other value as it is.
NormalisedTerminal(x) == IF x = Str("END") THEN Str(END) ELSE x

\* C8, as claimed: the mapping add_conditional_edges forwards has the same
\* keys, every node replaced by its name and the alias of the terminal marker
\* replaced by the terminal marker, as connect_to replaces it.
ConditionalMappingNormalised ==
    last.op = "add_conditional_edges"
        => LET m == last.arg.mapping
               sent == last.fwd[1].args[3]
           IN  /\ DOMAIN sent = DOMAIN m
               /\ \A k \in DOMAIN m :
                      sent[k] = IF m[k].kind = "node" THEN Str(name[m[k].val])
                                ELSE NormalisedTerminal(m[k])

\* x, resolved to a name, is no key of w's node mapping.
NamesNoNode(w, x) ==
    (IF x.kind = "node" THEN name[x.val] ELSE x.val) \notin DOMAIN _nodes[w]

\* C9, as claimed: add_conditional_edges fails with the unknown-node error
\* when its source, or a target of its mapping other than the terminal marker,
\* names no node of the workflow's mapping, and then forwards nothing.
ConditionalEdgesCheckNames ==
    \A w \in Workflows :
        (/\ last.op = "add_conditional_edges" /\ last.self = WorkflowRef(w)
         /\ \/ NamesNoNode(w, last.arg.source)
            \/ \E k \in DOMAIN last.arg.mapping :
                   /\ last.arg.mapping[k] \notin Terminals
                   /\ NamesNoNode(w, last.arg.mapping[k]))
            => (last.err = "UnknownNodeError" /\ last.fwd = <<>>)

\* C11: get_node is a pure read.  A get_node call changes nothing of the
\* builder; what get_node returns for any workflow and name changes only in
\* a step that registers a node, so two calls with nothing registered in
\* between return the same result; and a write to the dict the nodes property
\* handed out (an entry added, replaced or removed) changes neither the
\* workflow's mapping nor what get_node returns.
GetNodeIsPureRead ==
    [][/\ last'.op = "get_node" => UNCHANGED facade
       /\ last'.op \notin {"register", "add_node"} =>
              \A w \in Workflows, k \in Names \cup {"Z"} :
                  GetNodeResult(w, k)' = GetNodeResult(w, k)
       /\ (/\ last.op = "get_node" /\ last'.op = "get_node"
           /\ last'.self = last.self /\ last'.arg = last.arg)
              => last'.ret = last.ret
       /\ last'.op \in {"dict_setitem", "dict_delitem"} => UNCHANGED _nodes]_vars

\* C11 witness: the client removed or replaced an entry of the dict it got
\* from the nodes property, and get_node still returns the registered node.
GetNodeAfterDictWriteSeen ==
    \E w \in Workflows, k \in Names :
        /\ last.op = "get_node" /\ last.self = WorkflowRef(w) /\ last.arg = Str(k)
        /\ held.of = WorkflowRef(w)
        /\ k \in DOMAIN _nodes[w]
        /\ last.ret = _nodes[w][k]
        /\ DictGet(HeldItems, k) # _nodes[w][k]

\* C12: connect_to on a registered node fails with the invalid-target error
\* and adds no edge, for every target that is neither a node nor a string.
ConnectRefusesOtherTypes ==
    [][\A n \in Nodes, x \in Operands :
          (/\ Called("connect_to", NodeRef(n), x)
           /\ _workflow[n] # None
           /\ x.kind \notin {"node", "str"})
              => (last'.err = "InvalidTargetError" /\ _graph' = _graph)]_vars

\* C12 witness: a registered node was connected to a value that is neither a
\* node nor a string.
ConnectRefusesOtherTypesSeen ==
    \E n \in Nodes :
        /\ last.op = "connect_to" /\ last.self = NodeRef(n) /\ last.arg = IntVal
        /\ _workflow[n] # None
        /\ last.err = "InvalidTargetError"

\* The names an edge of workflow w may use as its source, and as its target.
EdgeSources(w) == DOMAIN _nodes[w]
EdgeTargets(w) == DOMAIN _nodes[w] \cup {END}

\* C13, as claimed: every edge the engine of a workflow holds, direct or
\* conditional, has a source that is a key of that workflow's node mapping
\* and targets that are keys of the mapping or the terminal marker.
EdgesNameRegisteredNodes ==
    \A w \in Workflows :
        /\ \A e \in _graph[w].edges :
               e[1] \in EdgeSources(w) /\ e[2] \in EdgeTargets(w)
        /\ \A b \in _graph[w].branches :
               /\ b.source.val \in EdgeSources(w)
               /\ \A k \in DOMAIN b.ends : b.ends[k].val \in EdgeTargets(w)

\* The part of C13 about direct edges only.
DirectEdgesNameRegisteredNodes ==
    \A w \in Workflows :
        \A e \in _graph[w].edges : e[1] \in EdgeSources(w) /\ e[2] \in EdgeTargets(w)

\* C14: in every reachable state the entry point a workflow has recorded is
\* absent or a key of its node mapping, and it is what the engine was last
\* told by set_entry_point (nothing, when the engine was never told).
EntryPointIsRegisteredName ==
    \A w \in Workflows :
        /\ _entry_point[w] = None
               \/ (IsStr(_entry_point[w]) /\ _entry_point[w].val \in DOMAIN _nodes[w])
        /\ _entry_point[w] = _graph[w].entry

\* C14 witness: after an entry point was set, a set_entry_point call with a
\* name no node has failed, and the entry point of before is still recorded.
EntryPointKeptSeen ==
    \E w \in Workflows :
        /\ last.op = "set_entry_point" /\ last.self = WorkflowRef(w)
        /\ last.err = "UnknownNodeError"
        /\ _entry_point[w] # None
        /\ _graph[w].entry = _entry_point[w]

\* C15, as claimed: a node is registered into exactly one workflow: every node
\* is a value of the node mapping of at most one workflow, and that workflow
\* is the one its back-reference points to.
NodeInOneWorkflow ==
    \A n \in Nodes, w \in Workflows :
        (\E k \in DOMAIN _nodes[w] : _nodes[w][k] = NodeRef(n))
            => _workflow[n] = WorkflowRef(w)

\* The state of the builder state machine workflow w is in.
Phase(w) ==
    IF _graph[w].compiled THEN "Compiled"
    ELSE IF _entry_point[w] # None THEN "HasEntryPoint"
    ELSE IF DOMAIN _nodes[w] # {} THEN "HasNodes"
    ELSE "Empty"

\* The step is a call of operation op on workflow w that returned.
Succeeded(op, w) == last'.op = op /\ last'.self = WorkflowRef(w) /\ last'.err = "none"

FacadeErrors == {"PreconditionError", "CrossWorkflowError", "InvalidTargetError",
                 "NotANodeError", "MissingCallableError", "UnknownNodeError",
                 "NoEntryPointError"}

\* The engine g after the forwarded call c.
Forwarded(g, c) ==
    CASE c.call = "add_node" -> EngineAddNode(g, c.args[1], c.args[2])
      [] c.call = "add_edge" -> EngineAddEdge(g, c.args[1], c.args[2])
      [] c.call = "set_entry_point" -> EngineSetEntryPoint(g, c.args[1])
      [] c.call = "add_conditional_edges" ->
             EngineAddConditionalEdges(g, c.args[1], c.args[2], c.args[3])
      [] c.call = "compile" -> EngineCompile(g, c.args[1])

\* C17: every call of the facade forwards at most one mutation to the engine:
\* the engines after the call are the engines before it, with the one
\* forwarded call, if any, applied to the engine of one workflow.  A call that
\* fails with one of the facade's precondition errors forwards nothing and
\* leaves the node mappings, the entry points and every back-reference as
\* they were.
AtMostOneForwardedCall ==
    [][/\ Len(last'.fwd) <= 1
       /\ last'.fwd = <<>> => _graph' = _graph
       /\ last'.fwd # <<>> =>
              LET c == last'.fwd[1] IN
              _graph' = [_graph EXCEPT ![c.graph] = Forwarded(_graph[c.graph], c)]
       /\ last'.err \in FacadeErrors =>
              /\ last'.fwd = <<>>
              /\ UNCHANGED <<_graph, _nodes, _entry_point, _workflow>>]_vars

\* C17 witness: with a node registered and an entry point set, a registration
\* failed for want of a callable.
FailedCallAfterSetupSeen ==
    \E w \in Workflows :
        /\ last.op \in {"register", "add_node"} /\ last.self = WorkflowRef(w)
        /\ last.err = "MissingCallableError"
        /\ _entry_point[w] # None
        /\ _workflow[last.arg.val] = None

\* C18, as claimed: for every node n whose back-reference is workflow w,
\* w.get_node(n.name) returns n itself.
GetNodeReturnsRegisteredNode ==
    \A n \in Nodes, w \in Workflows :
        _workflow[n] = WorkflowRef(w) => GetNodeResult(w, name[n]) = NodeRef(n)

\* C19, as claimed: for every name of a workflow's node mapping, the callable
\* the engine holds under that name is the callable bound to the mapped node.
EngineHoldsBoundCallable ==
    \A w \in Workflows :
        \A k \in DOMAIN _nodes[w] :
            /\ k \in DOMAIN _graph[w].nodes
            /\ _graph[w].nodes[k] = function[_nodes[w][k].val]

\* C20, as claimed: after every step the keys of a workflow's node mapping are
\* the node names its engine holds, and a registration the engine refused has
\* changed neither the mapping nor a back-reference.
MappingMatchesEngine ==
    [][/\ \A w \in Workflows : DOMAIN _nodes'[w] = DOMAIN _graph'[w].nodes
       /\ last'.err = "EngineError" => UNCHANGED <<_nodes, _workflow>>]_vars

\* The first half of C20 alone, as a state predicate.
MappingKeysAreEngineNodes ==
    \A w \in Workflows : DOMAIN _nodes[w] = DOMAIN _graph[w].nodes

====
